---------------------------- MODULE Spec2Model ----------------------------
(***************************************************************************)
(* A model of ml/train_model.py: the per-person sliding-window feature     *)
(* builder (prepare_features_per_person), the dataset assembler            *)
(* (prepare_dataset) and the control flow of main().                       *)
(*                                                                         *)
(* Numbers.  A float is a record [k, n, d]:                                *)
(*   k = "fin"  : the rational n/d, in lowest terms, d > 0                 *)
(*   k = "sqrt" : the non-negative square root of n/d (a finite real)      *)
(*   k = "inf"  : +infinity (n = 1) or -infinity (n = -1)                  *)
(*   k = "nan"  : NaN, pandas' missing value                               *)
(* A table cell is a float or a text cell [k |-> "str", s |-> <string>].   *)
(* A table (DataFrame) is [columns |-> <<names>>, rows |-> <<rows>>], each *)
(* row a sequence of cells aligned with columns.                           *)
(***************************************************************************)
EXTENDS Integers, Sequences, FiniteSets, TLC

VARIABLES
    pc,          \* position of the operation under way
    df,          \* the table handed to the operation
    result,      \* prepare_features_per_person: its return value
    id_column,   \* prepare_dataset: the identifier column chosen ("" = None)
    persons,     \* prepare_dataset: unique_persons
    k,           \* prepare_dataset: index of the next person of the loop
    handed,      \* prepare_dataset: the person_df handed to the builder, per call
    contrib,     \* prepare_dataset: what each call of the builder returned
    X_all,       \* prepare_dataset: the feature vectors collected so far
    y_all,       \* prepare_dataset: the targets collected so far
    tiesKept,    \* the build's sort: TRUE keeps ties in order, FALSE reverses them
    pathExists,  \* main: os.path.exists(DATASET_PATH)
    exitStatus,  \* main: the process's exit status (-1 while running)
    artifacts,   \* main: the output files written so far
    nTrain,      \* main: sizes of the three partitions
    nVal,
    nTest

vars == <<pc, df, result, id_column, persons, k, handed, contrib, X_all, y_all,
          tiesKept, pathExists, exitStatus, artifacts, nTrain, nVal, nTest>>

---------------------------------------------------------------------------
(* Program constants *)

SEQUENCE_LENGTH == 6

LowValid == 15

HighValid == 60

PeriodLimit == 15

DefaultPeriodNum == 5

DefaultAgeNum == 30

DefaultBmiNum == 22

---------------------------------------------------------------------------
(* Floats *)

Abs(n) == IF n < 0 THEN -n ELSE n

RECURSIVE GCD(_, _)
GCD(a, b) == IF b = 0 THEN a ELSE GCD(b, a % b)

PosInf == [k |-> "inf", n |-> 1, d |-> 0]

NegInf == [k |-> "inf", n |-> -1, d |-> 0]

NaN == [k |-> "nan", n |-> 0, d |-> 0]

Num(n) == [k |-> "fin", n |-> n, d |-> 1]

\* The rational n/d in lowest terms.  The arithmetic below is the code's only
\* on finite values (a window is range-checked before its statistics are
\* taken); an operand that is not finite has d = 0 and yields NaN.
Rat(n, d) ==
    IF d = 0 THEN NaN
    ELSE LET g == GCD(Abs(n), d)
         IN  [k |-> "fin", n |-> n \div g, d |-> d \div g]

Sqrt(n, d) ==
    IF d = 0 THEN NaN
    ELSE LET g == GCD(Abs(n), d)
         IN  [k |-> "sqrt", n |-> n \div g, d |-> d \div g]

Str(s) == [k |-> "str", s |-> s]

IsNa(x) == x.k = "nan"

IsFinite(x) == x.k \in {"fin", "sqrt"}

\* x < c and x > c for a float x (never a "sqrt") and an integer c, as IEEE
\* compares: every comparison with NaN is false.
LtInt(x, c) ==
    CASE x.k = "fin" -> x.n < c * x.d
      [] x.k = "inf" -> x.n < 0
      [] OTHER -> FALSE

GtInt(x, c) ==
    CASE x.k = "fin" -> x.n > c * x.d
      [] x.k = "inf" -> x.n > 0
      [] OTHER -> FALSE

\* x < y for two finite rationals
LtFin(x, y) == x.n * y.d < y.n * x.d

---------------------------------------------------------------------------
(* pd.to_numeric(..., errors='coerce') *)

Digits == <<"0", "1", "2", "3", "4", "5", "6", "7", "8", "9">>

IsDigit(c) == \E i \in 1..10 : Digits[i] = c

DigitVal(c) == (CHOOSE i \in 1..10 : Digits[i] = c) - 1

RECURSIVE ParseDigits(_, _)
ParseDigits(s, acc) ==
    IF Len(s) = 0 THEN acc
    ELSE ParseDigits(SubSeq(s, 2, Len(s)), 10 * acc + DigitVal(SubSeq(s, 1, 1)))

AllDigits(s) == Len(s) > 0 /\ \A i \in 1..Len(s) : IsDigit(SubSeq(s, i, i))

\* The text cells of the model are unsigned or negative decimal integers,
\* "inf", "-inf" and words; a word parses to nothing and is coerced to NaN.
ParseNumeric(s) ==
    CASE s = "inf" -> PosInf
      [] s = "-inf" -> NegInf
      [] AllDigits(s) -> Num(ParseDigits(s, 0))
      [] Len(s) > 1 /\ SubSeq(s, 1, 1) = "-" /\ AllDigits(SubSeq(s, 2, Len(s)))
            -> Num(-ParseDigits(SubSeq(s, 2, Len(s)), 0))
      [] OTHER -> NaN

to_numeric(cell) == IF cell.k = "str" THEN ParseNumeric(cell.s) ELSE cell

\* Series.dropna(): the values that are not NaN, in order
RECURSIVE dropna(_)
dropna(s) ==
    IF s = <<>> THEN <<>>
    ELSE IF IsNa(Head(s)) THEN dropna(Tail(s))
    ELSE <<Head(s)>> \o dropna(Tail(s))

to_numeric_dropna(cells) ==
    dropna([i \in 1..Len(cells) |-> to_numeric(cells[i])])

---------------------------------------------------------------------------
(* Tables *)

HasColumn(t, name) == \E j \in 1..Len(t.columns) : t.columns[j] = name

ColIndex(t, name) ==
    CHOOSE j \in 1..Len(t.columns) :
        /\ t.columns[j] = name
        /\ \A i \in 1..(j - 1) : t.columns[i] # name

Column(t, name) ==
    LET j == ColIndex(t, name)
    IN  [r \in 1..Len(t.rows) |-> t.rows[r][j]]


---------------------------------------------------------------------------
(* Arithmetic on finite rationals, and numpy's reductions over a window *)

AddFin(x, y) == Rat(x.n * y.d + y.n * x.d, x.d * y.d)

SubFin(x, y) == Rat(x.n * y.d - y.n * x.d, x.d * y.d)

MulFin(x, y) == Rat(x.n * y.n, x.d * y.d)

RECURSIVE SumFin(_)
SumFin(w) == IF w = <<>> THEN Num(0) ELSE AddFin(Head(w), SumFin(Tail(w)))

\* np.mean
np_mean(w) == LET s == SumFin(w) IN Rat(s.n, s.d * Len(w))

\* np.std (population standard deviation, ddof = 0): sqrt(mean(x^2) - mean(x)^2)
np_std(w) ==
    LET m == np_mean(w)
        q == np_mean([i \in 1..Len(w) |-> MulFin(w[i], w[i])])
        v == SubFin(q, MulFin(m, m))
    IN  Sqrt(v.n, v.d)

np_min(w) == CHOOSE x \in {w[i] : i \in 1..Len(w)} :
                \A j \in 1..Len(w) : ~LtFin(w[j], x)

np_max(w) == CHOOSE x \in {w[i] : i \in 1..Len(w)} :
                \A j \in 1..Len(w) : ~LtFin(x, w[j])

\* s[a:b] of Python (0-based, b exclusive), for 0 <= a <= b <= len(s)
Slice(s, a, b) == SubSeq(s, a + 1, b)

\* prev_periods[(prev_periods > 0) & (prev_periods < 15)]
RECURSIVE FilterPeriods(_)
FilterPeriods(p) ==
    IF p = <<>> THEN <<>>
    ELSE IF GtInt(Head(p), 0) /\ LtInt(Head(p), PeriodLimit)
         THEN <<Head(p)>> \o FilterPeriods(Tail(p))
         ELSE FilterPeriods(Tail(p))

---------------------------------------------------------------------------
(* prepare_features_per_person *)

COL_CYCLE == "LengthofCycle"

COL_MENSES == "LengthofMenses"

COL_AGE == "Age"

COL_BMI == "BMI"

COL_CYCLENUMBER == "CycleNumber"

\* SkipTarget without its upper bound
SkipTarget_LowerOnly(target) == LtInt(target, LowValid)

\* lines 80-81: the target is out of range
SkipTarget(target) == LtInt(target, LowValid) \/ GtInt(target, HighValid)

\* SkipWindow with the two ends of the range excluded
SkipWindow_Exclusive(prev_cycles) ==
    \E j \in 1..Len(prev_cycles) :
        ~GtInt(prev_cycles[j], LowValid) \/ ~LtInt(prev_cycles[j], HighValid)

\* lines 82-83: some windowed value is out of range
SkipWindow(prev_cycles) ==
    \E j \in 1..Len(prev_cycles) :
        LtInt(prev_cycles[j], LowValid) \/ GtInt(prev_cycles[j], HighValid)

\* lines 57-59: None is modelled by the flag has
PeriodLengths(person_df) ==
    IF HasColumn(person_df, COL_MENSES)
    THEN [has |-> TRUE, v |-> to_numeric_dropna(Column(person_df, COL_MENSES))]
    ELSE [has |-> FALSE, v |-> <<>>]

\* lines 92-102: the period-length feature of the window at offset i
PeriodFeature(period_lengths, i, sequence_length) ==
    IF period_lengths.has /\ Len(period_lengths.v) > i + sequence_length
    THEN LET prev_periods == Slice(period_lengths.v, i, i + sequence_length)
             valid_periods == FilterPeriods(prev_periods)
         IN  IF Len(valid_periods) > 0
             THEN np_mean(valid_periods)
             ELSE Num(DefaultPeriodNum)
    ELSE Num(DefaultPeriodNum)

\* FirstOrDefault reading the last record instead of the first
FirstOrDefault_LastRecord(person_df, name, default) ==
    IF HasColumn(person_df, name)
    THEN LET val == to_numeric(Column(person_df, name)[Len(person_df.rows)])
         IN  IF ~IsNa(val) THEN val ELSE Num(default)
    ELSE Num(default)

\* lines 62-72 with 104-105: the first record's value of an optional column,
\* or the default when the column is absent or the value coerces to NaN
FirstOrDefault(person_df, name, default) ==
    IF HasColumn(person_df, name)
    THEN LET val == to_numeric(Column(person_df, name)[1])
         IN  IF ~IsNa(val) THEN val ELSE Num(default)
    ELSE Num(default)

\* lines 85-105
FeatureVector(prev_cycles, period_feature, age, bmi) ==
    prev_cycles
        \o <<np_mean(prev_cycles), np_std(prev_cycles),
             np_min(prev_cycles), np_max(prev_cycles)>>
        \o <<period_feature>>
        \o <<age, bmi>>

\* lines 75-108: the loop from offset i on
RECURSIVE Windows(_, _, _, _, _, _)
Windows(cycle_lengths, period_lengths, age, bmi, i, sequence_length) ==
    IF i >= Len(cycle_lengths) - sequence_length THEN [X |-> <<>>, y |-> <<>>]
    ELSE LET prev_cycles == Slice(cycle_lengths, i, i + sequence_length)
             target == cycle_lengths[i + sequence_length + 1]
             rest == Windows(cycle_lengths, period_lengths, age, bmi,
                             i + 1, sequence_length)
         IN  IF SkipTarget(target) \/ SkipWindow(prev_cycles) THEN rest
             ELSE [X |-> <<FeatureVector(prev_cycles,
                                PeriodFeature(period_lengths, i, sequence_length),
                                age, bmi)>> \o rest.X,
                   y |-> <<target>> \o rest.y]

\* lines 43-110.  raised names the exception the call ends with ("" = none):
\* person_df['LengthofCycle'] of a table without that column is a KeyError.
prepare_features_per_person(person_df, sequence_length) ==
    IF ~HasColumn(person_df, COL_CYCLE)
    THEN [X |-> <<>>, y |-> <<>>, raised |-> "KeyError"]
    ELSE LET cycle_lengths == to_numeric_dropna(Column(person_df, COL_CYCLE))
         IN  IF Len(cycle_lengths) < sequence_length + 1
             THEN [X |-> <<>>, y |-> <<>>, raised |-> ""]
             ELSE LET w == Windows(cycle_lengths, PeriodLengths(person_df),
                               FirstOrDefault(person_df, COL_AGE, DefaultAgeNum),
                               FirstOrDefault(person_df, COL_BMI, DefaultBmiNum),
                               0, sequence_length)
                  IN  [X |-> w.X, y |-> w.y, raised |-> ""]

---------------------------------------------------------------------------
(* prepare_dataset *)

UpperCase == "ABCDEFGHIJKLMNOPQRSTUVWXYZ"

LowerCase == "abcdefghijklmnopqrstuvwxyz"

LowerChar(c) ==
    IF \E i \in 1..26 : SubSeq(UpperCase, i, i) = c
    THEN LET i == CHOOSE i \in 1..26 : SubSeq(UpperCase, i, i) = c
         IN  SubSeq(LowerCase, i, i)
    ELSE c

\* str.lower()
RECURSIVE Lower(_)
Lower(s) ==
    IF Len(s) = 0 THEN s
    ELSE LowerChar(SubSeq(s, 1, 1)) \o Lower(SubSeq(s, 2, Len(s)))

\* sub in s
Contains(s, sub) ==
    \E i \in 1..(Len(s) - Len(sub) + 1) : SubSeq(s, i, i + Len(sub) - 1) = sub

PreferredIdColumns == <<"ClientID", "ID", "Client", "Person", "Subject">>

\* LooksLikeId without the lower()
LooksLikeId_CaseSensitive(col) == Contains(col, "id") \/ Contains(col, "client")

\* lines 126-127
LooksLikeId(col) == Contains(Lower(col), "id") \/ Contains(Lower(col), "client")

\* lines 119-129; None is modelled by ""
FindIdColumn(columns) ==
    IF \E p \in 1..Len(PreferredIdColumns) :
           \E j \in 1..Len(columns) : columns[j] = PreferredIdColumns[p]
    THEN PreferredIdColumns[
             CHOOSE p \in 1..Len(PreferredIdColumns) :
                 /\ \E j \in 1..Len(columns) : columns[j] = PreferredIdColumns[p]
                 /\ \A q \in 1..(p - 1) :
                        \A j \in 1..Len(columns) : columns[j] # PreferredIdColumns[q]]
    ELSE IF \E j \in 1..Len(columns) : LooksLikeId(columns[j])
    THEN columns[CHOOSE j \in 1..Len(columns) :
                     /\ LooksLikeId(columns[j])
                     /\ \A i \in 1..(j - 1) : ~LooksLikeId(columns[i])]
    ELSE ""

\* Series.unique(): the distinct values in order of first appearance; the
\* missing values count as one value
RECURSIVE Unique(_, _)
Unique(cells, seen) ==
    IF cells = <<>> THEN seen
    ELSE IF \E i \in 1..Len(seen) : seen[i] = Head(cells)
         THEN Unique(Tail(cells), seen)
         ELSE Unique(Tail(cells), Append(seen, Head(cells)))

\* line 138
UniquePersons(t, idc) == Unique(Column(t, idc), <<>>)

\* df[id_column] == person_id, elementwise: a missing value equals nothing,
\* itself included
CellEq(a, b) == a = b /\ ~IsNa(a)

\* SelectRows without the selection
SelectRows_All(rows, j, person_id) == rows

RECURSIVE SelectRows(_, _, _)
SelectRows(rows, j, person_id) ==
    IF rows = <<>> THEN <<>>
    ELSE IF CellEq(Head(rows)[j], person_id)
         THEN <<Head(rows)>> \o SelectRows(Tail(rows), j, person_id)
         ELSE SelectRows(Tail(rows), j, person_id)

\* the key of a row in sort_values: the CycleNumber cells of the model are
\* numbers or missing
KeyLess(a, b) == LtFin(a, b)

\* rows, sorted by column j, inserted one by one from the left; a row goes
\* after the rows with an equal key when keep holds and before them otherwise
RECURSIVE InsertRow(_, _, _, _)
InsertRow(sorted, row, j, keep) ==
    IF sorted = <<>> THEN <<row>>
    ELSE IF KeyLess(row[j], Head(sorted)[j])
            \/ (~keep /\ ~KeyLess(Head(sorted)[j], row[j]))
         THEN <<row>> \o sorted
         ELSE <<Head(sorted)>> \o InsertRow(Tail(sorted), row, j, keep)

RECURSIVE SortRows(_, _, _)
SortRows(rows, j, keep) ==
    IF rows = <<>> THEN <<>>
    ELSE InsertRow(SortRows(SubSeq(rows, 1, Len(rows) - 1), j, keep),
                   rows[Len(rows)], j, keep)

RECURSIVE RowsWhere(_, _, _)
RowsWhere(rows, j, missing) ==
    IF rows = <<>> THEN <<>>
    ELSE IF IsNa(Head(rows)[j]) = missing
         THEN <<Head(rows)>> \o RowsWhere(Tail(rows), j, missing)
         ELSE RowsWhere(Tail(rows), j, missing)

\* line 144: sort_values('CycleNumber'), ascending, the rows with a missing
\* key last in their original order.  The sort is quicksort, which promises
\* no order among equal keys: a build keeps them in order (keep) or not.
sort_values(t, name, keep) ==
    LET j == ColIndex(t, name)
    IN  [columns |-> t.columns,
         rows |-> SortRows(RowsWhere(t.rows, j, FALSE), j, keep)
                    \o RowsWhere(t.rows, j, TRUE)]

\* lines 142-144: the person_df handed to the feature builder
PersonDf(t, idc, person_id, keep) ==
    LET person_df == [columns |-> t.columns,
                      rows |-> SelectRows(t.rows, ColIndex(t, idc), person_id)]
    IN  IF HasColumn(person_df, COL_CYCLENUMBER)
        THEN sort_values(person_df, COL_CYCLENUMBER, keep)
        ELSE person_df

\* lines 141-150: the loop from the person at index i on
RECURSIVE PersonLoop(_, _, _, _, _)
PersonLoop(t, idc, ps, i, keep) ==
    IF i > Len(ps) THEN [X |-> <<>>, y |-> <<>>, raised |-> ""]
    ELSE LET r == prepare_features_per_person(PersonDf(t, idc, ps[i], keep),
                                              SEQUENCE_LENGTH)
         IN  IF r.raised # "" THEN r
             ELSE LET rest == PersonLoop(t, idc, ps, i + 1, keep)
                  IN  [X |-> r.X \o rest.X, y |-> r.y \o rest.y,
                       raised |-> rest.raised]

\* lines 113-152
prepare_dataset(t, keep) ==
    LET idc == FindIdColumn(t.columns)
    IN  IF idc = ""
        THEN prepare_features_per_person(t, SEQUENCE_LENGTH)
        ELSE PersonLoop(t, idc, UniquePersons(t, idc), 1, keep)

---------------------------------------------------------------------------
(* Bounds of the inputs *)

\* the most records of one entity
MaxRows == 8

\* the most anomalous cycle-length cells of one entity
MaxOdd == 2

---------------------------------------------------------------------------
(* The input tables of one entity.  Every cell has a plain value, distinct *)
(* from row to row so that a shifted or reordered window shows; up to      *)
(* MaxOdd cells of a column carry an anomalous value instead.              *)

\* the plain cell of row r of the column named name
PlainCell(name, r) == IF name = COL_CYCLE THEN Num(24 + r) ELSE Num(2 + r)

\* out of range on either side, the two ends of the range, infinite,
\* non-numeric text, and a number written as text
OddCycleCells == {Num(14), Num(15), Num(60), Num(61), PosInf, Str("abc"), Str("29")}

\* not a valid period (0 and 15 are excluded), missing, non-numeric, infinite
OddMensesCells == {Num(0), Num(15), NaN, Str("abc"), PosInf}

FirstAgeCells == {Num(25), Str("41"), Str("abc"), NaN, PosInf}

LaterAgeCells == {Num(52), Str("abc")}

\* the sets of at most budget rows out of n, where the odd cells go
OddPlaces(n, budget) == {Q \in SUBSET (1..n) : Cardinality(Q) <= budget}

ColumnWithOdd(n, P, f, name) ==
    [r \in 1..n |-> IF r \in P THEN f[r] ELSE PlainCell(name, r)]

PlainColumn(n, name) == [r \in 1..n |-> PlainCell(name, r)]

\* a column whose first cell is first and whose other cells are later
FirstLaterColumn(n, first, later) == [r \in 1..n |-> IF r = 1 THEN first ELSE later]

MkTable(names, cols, n) ==
    [columns |-> names,
     rows |-> [r \in 1..n |-> [j \in 1..Len(names) |-> cols[j][r]]]]

\* the spec's scenario: seven cycle lengths and no other column
ScenarioCycles == <<28, 30, 29, 27, 31, 28, 29>>

ScenarioTable ==
    MkTable(<<COL_CYCLE>>, <<[r \in 1..7 |-> Num(ScenarioCycles[r])]>>, 7)

\* cycle lengths alone, with anomalies
IsCycleTable(t) ==
    \E n \in 0..MaxRows : \E P \in OddPlaces(n, MaxOdd) : \E f \in [P -> OddCycleCells] :
        t = MkTable(<<COL_CYCLE>>, <<ColumnWithOdd(n, P, f, COL_CYCLE)>>, n)

\* cycle and menses lengths, one anomaly at most in each
IsMensesTable(t) ==
    \E n \in 0..MaxRows :
        \E P \in OddPlaces(n, 1) : \E f \in [P -> {Str("abc"), Num(61)}] :
            \E Q \in OddPlaces(n, 1) : \E g \in [Q -> OddMensesCells] :
                t = MkTable(<<COL_CYCLE, COL_MENSES>>,
                            <<ColumnWithOdd(n, P, f, COL_CYCLE),
                              ColumnWithOdd(n, Q, g, COL_MENSES)>>, n)

\* plain cycle lengths with an Age column, a BMI column, or both
IsAgeBmiTable(t) ==
    \E n \in 0..MaxRows :
        \E a \in FirstAgeCells \X LaterAgeCells : \E b \in FirstAgeCells \X LaterAgeCells :
            \E names \in {<<COL_CYCLE, COL_AGE>>, <<COL_BMI, COL_CYCLE>>,
                          <<COL_CYCLE, COL_AGE, COL_BMI>>} :
                /\ ~HasColumn([columns |-> names], COL_AGE) => a = <<Num(25), Num(52)>>
                /\ ~HasColumn([columns |-> names], COL_BMI) => b = <<Num(25), Num(52)>>
                /\ t = MkTable(names,
                               [j \in 1..Len(names) |->
                                   CASE names[j] = COL_CYCLE -> PlainColumn(n, COL_CYCLE)
                                     [] names[j] = COL_AGE -> FirstLaterColumn(n, a[1], a[2])
                                     [] OTHER -> FirstLaterColumn(n, b[1], b[2])], n)

\* records that have no LengthofCycle column at all
IsNoCycleTable(t) ==
    \E n \in 0..MaxRows : \E names \in {<<COL_MENSES>>, <<COL_AGE, COL_BMI>>} :
        t = MkTable(names, [j \in 1..Len(names) |-> PlainColumn(n, names[j])], n)

---------------------------------------------------------------------------
(* The feature builder called on one entity's records *)

NoResult == [X |-> <<>>, y |-> <<>>, raised |-> "none yet"]

Idle ==
    /\ id_column = "" /\ persons = <<>> /\ k = 0
    /\ handed = <<>> /\ contrib = <<>> /\ X_all = <<>> /\ y_all = <<>>
    /\ tiesKept = TRUE /\ pathExists = TRUE /\ exitStatus = -1
    /\ artifacts = {} /\ nTrain = 0 /\ nVal = 0 /\ nTest = 0

InitPerson ==
    /\ pc = "person_call"
    /\ \/ df = ScenarioTable
       \/ IsCycleTable(df)
       \/ IsMensesTable(df)
       \/ IsAgeBmiTable(df)
       \/ IsNoCycleTable(df)
    /\ result = NoResult
    /\ Idle

CallFeatureBuilder ==
    /\ pc = "person_call"
    /\ result' = prepare_features_per_person(df, SEQUENCE_LENGTH)
    /\ pc' = IF result'.raised = "" THEN "person_returned" ELSE "person_raised"
    /\ UNCHANGED <<df, id_column, persons, k, handed, contrib, X_all, y_all,
                   tiesKept, pathExists, exitStatus, artifacts, nTrain, nVal, nTest>>

NextPerson == CallFeatureBuilder

SpecPerson == InitPerson /\ [][NextPerson]_vars

---------------------------------------------------------------------------
(* The input tables of prepare_dataset: the records of two entities, "A"   *)
(* and "B", and of no entity ("N", a missing identifier), laid out in one  *)
(* table.  The cycle length of a row is plain and distinct from row to row *)
(* of the whole table, so that a record counted for the wrong entity or in *)
(* the wrong order shows.                                                  *)

\* na tags "A" and nb tags "B", taking turns from A (turnA) or from B
RECURSIVE Alternate(_, _, _)
Alternate(na, nb, turnA) ==
    IF na = 0 /\ nb = 0 THEN <<>>
    ELSE IF (turnA /\ na > 0) \/ nb = 0
         THEN <<"A">> \o Alternate(na - 1, nb, FALSE)
         ELSE <<"B">> \o Alternate(na, nb - 1, TRUE)

Layouts == {"AB", "BA", "alt", "altB"}

Layout(na, nb, pat) ==
    CASE pat = "AB" -> [r \in 1..na |-> "A"] \o [r \in 1..nb |-> "B"]
      [] pat = "BA" -> [r \in 1..nb |-> "B"] \o [r \in 1..na |-> "A"]
      [] pat = "alt" -> Alternate(na, nb, TRUE)
      [] OTHER -> Alternate(na, nb, FALSE)

\* tags with a record of no entity put in at place q (q = 0: none)
WithMissingId(tags, q) ==
    IF q = 0 THEN tags
    ELSE SubSeq(tags, 1, q - 1) \o <<"N">> \o SubSeq(tags, q, Len(tags))

TagCell(tag) ==
    CASE tag = "A" -> Str("nfp8122")
      [] tag = "B" -> Str("nfp8114")
      [] OTHER -> NaN

\* how many of the rows 1..r carry the tag of row r
IndexWithin(tags, r) == Cardinality({q \in 1..r : tags[q] = tags[r]})

CountOf(tags, tag) == Cardinality({q \in 1..Len(tags) : tags[q] = tag})

\* the CycleNumber cell of row r: ascending within the entity, descending,
\* in tied pairs, or ascending with the entity's first number missing
CycleNumberCell(tags, r, cn) ==
    LET i == IndexWithin(tags, r)
    IN  CASE cn = "asc" -> Num(i)
          [] cn = "desc" -> Num(CountOf(tags, tags[r]) + 1 - i)
          [] cn = "ties" -> Num((i + 1) \div 2)
          [] OTHER -> IF i = 1 THEN NaN ELSE Num(i)

PlainTableCycle(r) == Num(20 + r)

\* The identifier-like columns of a table: their names, and whether each
\* holds the entity of the row ("tag") or one value for all rows ("const").
DefaultHeader == [names |-> <<"ClientID">>, kinds |-> <<"tag">>]

NoIdHeaders ==
    { [names |-> <<>>, kinds |-> <<>>],
      [names |-> <<"Group">>, kinds |-> <<"tag">>] }

Headers ==
    { DefaultHeader,
      [names |-> <<"ID", "ClientID">>, kinds |-> <<"const", "tag">>],
      [names |-> <<"Subject", "Person">>, kinds |-> <<"const", "tag">>],
      [names |-> <<"SiteClient", "Subject">>, kinds |-> <<"const", "tag">>],
      [names |-> <<"Group", "PatientId", "client_no">>,
       kinds |-> <<"const", "tag", "const">>],
      [names |-> <<"Name", "CLIENT">>, kinds |-> <<"const", "tag">>],
      [names |-> <<"Width", "Name">>, kinds |-> <<"tag", "const">>] }
    \cup NoIdHeaders

\* the table of the rows tagged tags; cn = "absent": no CycleNumber column;
\* the cycle length of row oddRow (if any) is oddVal
DatasetTable(header, tags, cn, oddRow, oddVal) ==
    [columns |-> header.names
                   \o (IF cn = "absent" THEN <<>> ELSE <<COL_CYCLENUMBER>>)
                   \o <<COL_CYCLE>>,
     rows |-> [r \in 1..Len(tags) |->
                 [j \in 1..Len(header.names) |->
                     IF header.kinds[j] = "tag" THEN TagCell(tags[r]) ELSE Str("site")]
                 \o (IF cn = "absent" THEN <<>> ELSE <<CycleNumberCell(tags, r, cn)>>)
                 \o <<IF r = oddRow THEN oddVal ELSE PlainTableCycle(r)>>]]

\* the table without its LengthofCycle column (the last one)
WithoutCycleColumn(t) ==
    [columns |-> SubSeq(t.columns, 1, Len(t.columns) - 1),
     rows |-> [r \in 1..Len(t.rows) |-> SubSeq(t.rows[r], 1, Len(t.columns) - 1)]]

OddTableCells == {Num(61), Str("abc"), PosInf}

\* two entities side by side, an anomalous cycle length in one record at most
IsGroupedTable(t) ==
    \E na \in 0..MaxRows : \E nb \in 0..MaxRows : \E pat \in Layouts :
        \E cn \in {"absent", "asc"} :
            \E oddRow \in 0..(na + nb) : \E oddVal \in OddTableCells :
                /\ oddRow = 0 => oddVal = Num(61)
                /\ t = DatasetTable(DefaultHeader, Layout(na, nb, pat), cn, oddRow, oddVal)

\* records out of sequence-number order, with and without an identifier
IsUnorderedTable(t) ==
    \E na \in 0..MaxRows : \E nb \in 0..MaxRows : \E pat \in Layouts :
        \E cn \in {"desc", "ties", "gap"} : \E header \in {DefaultHeader} \cup NoIdHeaders :
            t = DatasetTable(header, Layout(na, nb, pat), cn, 0, Num(61))

\* a record whose identifier is missing among the others
IsMissingIdTable(t) ==
    \E na \in 0..MaxRows : \E nb \in 0..MaxRows : \E pat \in Layouts :
        \E cn \in {"absent", "desc"} : \E q \in 1..(na + nb + 1) :
            t = DatasetTable(DefaultHeader, WithMissingId(Layout(na, nb, pat), q),
                             cn, 0, Num(61))

\* the identifier column under its various names
IsHeaderTable(t) ==
    \E na \in 0..MaxRows : \E nb \in 0..MaxRows : \E header \in Headers :
        \E cn \in {"absent", "desc"} :
            t = DatasetTable(header, Layout(na, nb, "alt"), cn, 0, Num(61))

\* no LengthofCycle column, with and without an identifier
IsMissingColumnTable(t) ==
    \E na \in 0..MaxRows : \E nb \in 0..MaxRows :
        \E header \in {DefaultHeader, [names |-> <<"Group">>, kinds |-> <<"tag">>]} :
            \E cn \in {"absent", "asc"} :
                t = WithoutCycleColumn(
                        DatasetTable(header, Layout(na, nb, "AB"), cn, 0, Num(61)))

---------------------------------------------------------------------------
(* prepare_dataset, step by step *)

InitDataset ==
    /\ pc = "pd_start"
    /\ \/ IsGroupedTable(df)
       \/ IsUnorderedTable(df)
       \/ IsMissingIdTable(df)
       \/ IsHeaderTable(df)
       \/ IsMissingColumnTable(df)
    /\ tiesKept \in BOOLEAN
    /\ result = NoResult
    /\ id_column = "" /\ persons = <<>> /\ k = 0
    /\ handed = <<>> /\ contrib = <<>> /\ X_all = <<>> /\ y_all = <<>>
    /\ pathExists = TRUE /\ exitStatus = -1
    /\ artifacts = {} /\ nTrain = 0 /\ nVal = 0 /\ nTest = 0

\* lines 118-129
PD_FindIdColumn ==
    /\ pc = "pd_start"
    /\ id_column' = FindIdColumn(df.columns)
    /\ pc' = "pd_found"
    /\ UNCHANGED <<df, result, persons, k, handed, contrib, X_all, y_all,
                   tiesKept, pathExists, exitStatus, artifacts, nTrain, nVal, nTest>>

\* lines 131-134
PD_SingleEntity ==
    /\ pc = "pd_found"
    /\ id_column = ""
    /\ LET r == prepare_features_per_person(df, SEQUENCE_LENGTH)
       IN  /\ handed' = <<df>>
           /\ contrib' = <<r>>
           /\ result' = r
           /\ pc' = IF r.raised = "" THEN "pd_returned" ELSE "pd_raised"
    /\ UNCHANGED <<df, id_column, persons, k, X_all, y_all,
                   tiesKept, pathExists, exitStatus, artifacts, nTrain, nVal, nTest>>

\* lines 136-139
PD_UniquePersons ==
    /\ pc = "pd_found"
    /\ id_column # ""
    /\ persons' = UniquePersons(df, id_column)
    /\ k' = 1
    /\ pc' = "pd_loop"
    /\ UNCHANGED <<df, result, id_column, handed, contrib, X_all, y_all,
                   tiesKept, pathExists, exitStatus, artifacts, nTrain, nVal, nTest>>

\* lines 141-150: one turn of the loop
PD_Person ==
    /\ pc = "pd_loop"
    /\ k <= Len(persons)
    /\ LET person_df == PersonDf(df, id_column, persons[k], tiesKept)
           r == prepare_features_per_person(person_df, SEQUENCE_LENGTH)
       IN  /\ handed' = Append(handed, person_df)
           /\ contrib' = Append(contrib, r)
           /\ IF r.raised # ""
              THEN /\ pc' = "pd_raised"
                   /\ result' = r
                   /\ UNCHANGED <<k, X_all, y_all>>
              ELSE /\ pc' = "pd_loop"
                   /\ k' = k + 1
                   /\ X_all' = IF Len(r.X) > 0 THEN X_all \o r.X ELSE X_all
                   /\ y_all' = IF Len(r.X) > 0 THEN y_all \o r.y ELSE y_all
                   /\ UNCHANGED result
    /\ UNCHANGED <<df, id_column, persons,
                   tiesKept, pathExists, exitStatus, artifacts, nTrain, nVal, nTest>>

\* line 152
PD_Return ==
    /\ pc = "pd_loop"
    /\ k > Len(persons)
    /\ result' = [X |-> X_all, y |-> y_all, raised |-> ""]
    /\ pc' = "pd_returned"
    /\ UNCHANGED <<df, id_column, persons, k, handed, contrib, X_all, y_all,
                   tiesKept, pathExists, exitStatus, artifacts, nTrain, nVal, nTest>>

NextDataset ==
    \/ PD_FindIdColumn
    \/ PD_SingleEntity
    \/ PD_UniquePersons
    \/ PD_Person
    \/ PD_Return

SpecDataset == InitDataset /\ [][NextDataset]_vars

---------------------------------------------------------------------------
(* main *)

\* ceil(num/den * n), as sklearn's train_test_split sizes the test part of a
\* split when test_size is a fraction
CeilFraction(num, den, n) == (num * n + den - 1) \div den

\* train_test_split(..., test_size = num/den): the sizes of the two parts;
\* sklearn raises ValueError when the first would be empty
SplitSizes(n, num, den) ==
    LET n_test == CeilFraction(num, den, n)
    IN  [first |-> n - n_test, second |-> n_test, raised |-> (n - n_test = 0)]

ArtifactNames == {"model.json", "scaler.json", "training_metrics.json"}

\* what a file without a header line holds: no column, no row
EmptyTable == [columns |-> <<>>, rows |-> <<>>]

\* The files pd.read_csv makes a table of: a header line of one column at
\* least, and the records of two entities, or of one without an identifier.
\* An incomplete file lacks the LengthofCycle column.
IsFileTable(t) ==
    \E na \in 0..MaxRows : \E nb \in 0..MaxRows :
        \E header \in {DefaultHeader, [names |-> <<>>, kinds |-> <<>>]} :
            \E cn \in {"absent", "asc"} : \E complete \in BOOLEAN :
                LET whole == DatasetTable(header, Layout(na, nb, "AB"), cn, 0, Num(61))
                IN  /\ ~complete => (na <= 1 /\ nb <= 1)
                    /\ ~complete => Len(whole.columns) > 1
                    /\ t = IF complete THEN whole ELSE WithoutCycleColumn(whole)

\* df is the content of the file at the path until main has loaded it: the
\* table of a file that parses, EmptyTable for an empty file (which read_csv
\* refuses) and where there is no file
Init ==
    /\ pc = "main_start"
    /\ pathExists \in BOOLEAN
    /\ IF pathExists THEN (IsFileTable(df) \/ df = EmptyTable) ELSE df = EmptyTable
    /\ tiesKept \in BOOLEAN
    /\ result = NoResult
    /\ exitStatus = -1
    /\ artifacts = {}
    /\ nTrain = 0 /\ nVal = 0 /\ nTest = 0
    /\ id_column = "" /\ persons = <<>> /\ k = 0
    /\ handed = <<>> /\ contrib = <<>> /\ X_all = <<>> /\ y_all = <<>>

\* lines 213-215
M_MissingFile ==
    /\ pc = "main_start"
    /\ ~pathExists
    /\ exitStatus' = 1
    /\ pc' = "exited"
    /\ UNCHANGED <<df, result, id_column, persons, k, handed, contrib, X_all, y_all,
                   tiesKept, pathExists, artifacts, nTrain, nVal, nTest>>

\* line 218 (line 33): the file parses into a table
M_Load ==
    /\ pc = "main_start"
    /\ pathExists
    /\ df.columns # <<>>
    /\ pc' = "main_loaded"
    /\ UNCHANGED <<df, result, id_column, persons, k, handed, contrib, X_all, y_all,
                   tiesKept, pathExists, exitStatus, artifacts, nTrain, nVal, nTest>>

\* line 218 (line 33): pd.read_csv raises EmptyDataError on a file with no
\* column to parse; nobody catches it and the process ends with status 1
M_LoadRaises ==
    /\ pc = "main_start"
    /\ pathExists
    /\ df.columns = <<>>
    /\ exitStatus' = 1
    /\ pc' = "crashed"
    /\ UNCHANGED <<df, result, id_column, persons, k, handed, contrib, X_all, y_all,
                   tiesKept, pathExists, artifacts, nTrain, nVal, nTest>>

\* line 222; an exception nobody catches ends the process with status 1
M_Prepare ==
    /\ pc = "main_loaded"
    /\ result' = prepare_dataset(df, tiesKept)
    /\ IF result'.raised # ""
       THEN exitStatus' = 1 /\ pc' = "crashed"
       ELSE exitStatus' = exitStatus /\ pc' = "main_prepared"
    /\ UNCHANGED <<df, id_column, persons, k, handed, contrib, X_all, y_all,
                   tiesKept, pathExists, artifacts, nTrain, nVal, nTest>>

\* lines 224-226
M_NoSamples ==
    /\ pc = "main_prepared"
    /\ Len(result.X) = 0
    /\ exitStatus' = 1
    /\ pc' = "exited"
    /\ UNCHANGED <<df, result, id_column, persons, k, handed, contrib, X_all, y_all,
                   tiesKept, pathExists, artifacts, nTrain, nVal, nTest>>

\* lines 234-239: 70% / 30%, then the 30% in halves
M_Split ==
    /\ pc = "main_prepared"
    /\ Len(result.X) # 0
    /\ LET s1 == SplitSizes(Len(result.X), 3, 10)
           s2 == SplitSizes(s1.second, 5, 10)
       IN  IF s1.raised \/ s2.raised
           THEN /\ exitStatus' = 1
                /\ pc' = "crashed"
                /\ UNCHANGED <<nTrain, nVal, nTest>>
           ELSE /\ nTrain' = s1.first
                /\ nVal' = s2.first
                /\ nTest' = s2.second
                /\ pc' = "main_split"
                /\ UNCHANGED exitStatus
    /\ UNCHANGED <<df, result, id_column, persons, k, handed, contrib, X_all, y_all,
                   tiesKept, pathExists, artifacts>>

\* line 263: with early_stopping the fit sets validation_fraction = 0.15 of
\* the training part aside, by the same train_test_split
EarlyStoppingSplit(n) == SplitSizes(n, 15, 100)

\* The fit scores the part set aside by R^2 after every epoch, and R^2 is not
\* a number on fewer than two samples.  Whether a fit whose score never is a
\* number ends normally or raises depends on the library's release.
FitMayRaise(n) == EarlyStoppingSplit(n).raised \/ EarlyStoppingSplit(n).second < 2

FitMayReturn(n) == ~EarlyStoppingSplit(n).raised

\* lines 247-299: scaling, fitting, evaluation, all returning
M_Train ==
    /\ pc = "main_split"
    /\ FitMayReturn(nTrain)
    /\ pc' = "main_trained"
    /\ UNCHANGED <<df, result, id_column, persons, k, handed, contrib, X_all, y_all,
                   tiesKept, pathExists, exitStatus, artifacts, nTrain, nVal, nTest>>

\* line 269: model.fit raises; nobody catches it and the process ends
\* with status 1, nothing written
M_TrainRaises ==
    /\ pc = "main_split"
    /\ FitMayRaise(nTrain)
    /\ exitStatus' = 1
    /\ pc' = "crashed"
    /\ UNCHANGED <<df, result, id_column, persons, k, handed, contrib, X_all, y_all,
                   tiesKept, pathExists, artifacts, nTrain, nVal, nTest>>

\* lines 157-182
M_ExportModel ==
    /\ pc = "main_trained"
    /\ artifacts' = artifacts \cup {"model.json"}
    /\ pc' = "main_model_saved"
    /\ UNCHANGED <<df, result, id_column, persons, k, handed, contrib, X_all, y_all,
                   tiesKept, pathExists, exitStatus, nTrain, nVal, nTest>>

\* lines 185-198
M_ExportScaler ==
    /\ pc = "main_model_saved"
    /\ artifacts' = artifacts \cup {"scaler.json"}
    /\ pc' = "main_scaler_saved"
    /\ UNCHANGED <<df, result, id_column, persons, k, handed, contrib, X_all, y_all,
                   tiesKept, pathExists, exitStatus, nTrain, nVal, nTest>>

\* lines 201-204
M_ExportMetrics ==
    /\ pc = "main_scaler_saved"
    /\ artifacts' = artifacts \cup {"training_metrics.json"}
    /\ pc' = "main_exported"
    /\ UNCHANGED <<df, result, id_column, persons, k, handed, contrib, X_all, y_all,
                   tiesKept, pathExists, exitStatus, nTrain, nVal, nTest>>

\* lines 306-313: main returns and the process ends normally
M_Done ==
    /\ pc = "main_exported"
    /\ exitStatus' = 0
    /\ pc' = "done"
    /\ UNCHANGED <<df, result, id_column, persons, k, handed, contrib, X_all, y_all,
                   tiesKept, pathExists, artifacts, nTrain, nVal, nTest>>

Next ==
    \/ M_MissingFile
    \/ M_Load
    \/ M_LoadRaises
    \/ M_Prepare
    \/ M_NoSamples
    \/ M_Split
    \/ M_Train
    \/ M_TrainRaises
    \/ M_ExportModel
    \/ M_ExportScaler
    \/ M_ExportMetrics
    \/ M_Done

Spec == Init /\ [][Next]_vars

---------------------------------------------------------------------------
(* What the claims speak of *)

Returned == pc = "person_returned"

\* the entity's valid cycle lengths: numeric after coercion, in record order
\* (none where the records have no cycle-length column)
ValidCycles(t) ==
    IF HasColumn(t, COL_CYCLE) THEN to_numeric_dropna(Column(t, COL_CYCLE)) ELSE <<>>

\* a finite number of the inclusive range [15, 60]
InRange(x) == x.k = "fin" /\ 15 * x.d <= x.n /\ x.n <= 60 * x.d

WindowOf(features) == SubSeq(features, 1, 6)

\* C1: every returned example has its target and its six windowed cycle
\* lengths in the inclusive range [15, 60], and is a run of seven consecutive
\* valid cycle lengths of the entity as they are (skipped, never clamped).
C1_ExamplesInRange ==
    Returned =>
        \A e \in 1..Len(result.X) :
            /\ InRange(result.y[e])
            /\ \A j \in 1..6 : InRange(result.X[e][j])
            /\ \E i \in 0..(Len(ValidCycles(df)) - 7) :
                  /\ WindowOf(result.X[e]) = SubSeq(ValidCycles(df), i + 1, i + 6)
                  /\ result.y[e] = ValidCycles(df)[i + 7]

\* an entity with an out-of-range valid cycle length that still yields an example
C1_Witness ==
    /\ Returned
    /\ Len(result.X) >= 1
    /\ \E i \in 1..Len(ValidCycles(df)) : ~InRange(ValidCycles(df)[i])

\* C2: an entity whose valid cycle lengths are N >= 7 values all in range
\* yields exactly N - 6 examples, example i holding cycles[i .. i+6) as its
\* first six features and cycles[i+6] as its target; the scenario yields one
\* example, window 28,30,29,27,31,28 and target 29.
C2_SlidingWindow ==
    Returned =>
        LET cycles == ValidCycles(df)
            N == Len(cycles)
        IN  /\ (N >= 7 /\ \A j \in 1..N : InRange(cycles[j])) =>
                  /\ Len(result.X) = N - 6
                  /\ Len(result.y) = N - 6
                  /\ \A i \in 0..(N - 7) :
                        /\ WindowOf(result.X[i + 1]) = SubSeq(cycles, i + 1, i + 6)
                        /\ result.y[i + 1] = cycles[i + 7]
            /\ df = ScenarioTable =>
                  /\ Len(result.X) = 1
                  /\ WindowOf(result.X[1]) =
                        <<Num(28), Num(30), Num(29), Num(27), Num(31), Num(28)>>
                  /\ result.y = <<Num(29)>>

\* two examples from eight valid values, one of them written as text
C2_Witness ==
    /\ Returned
    /\ Len(result.X) = 2
    /\ \E r \in 1..Len(df.rows) : Column(df, COL_CYCLE)[r].k = "str"
    /\ \A j \in 1..Len(ValidCycles(df)) : InRange(ValidCycles(df)[j])

\* the offsets of the kept examples, in order
RECURSIVE KeptOffsets(_, _)
KeptOffsets(cycles, i) ==
    IF i > Len(cycles) - 7 THEN <<>>
    ELSE IF \A j \in (i + 1)..(i + 7) : InRange(cycles[j])
         THEN <<i>> \o KeptOffsets(cycles, i + 1)
         ELSE KeptOffsets(cycles, i + 1)

\* the menses lengths of records i .. i+5 that are strictly between 0 and 15
ValidMensesAt(t, i) ==
    IF ~HasColumn(t, COL_MENSES) THEN <<>>
    ELSE LET col == Column(t, COL_MENSES)
             at == [j \in 1..6 |-> IF i + j <= Len(col) THEN to_numeric(col[i + j]) ELSE NaN]
         IN  FilterPeriods(at)

\* C3: the period-length feature of the example at offset i is the mean of the
\* entity's menses lengths at records i .. i+5 that are strictly between 0 and
\* 15 when there is one, and 5.0 otherwise.
C3_PeriodAligned ==
    (Returned /\ Len(ValidCycles(df)) = Len(df.rows)) =>
        LET offs == KeptOffsets(ValidCycles(df), 0)
        IN  \A e \in 1..Len(result.X) :
                e <= Len(offs) =>
                    result.X[e][11] =
                        IF Len(ValidMensesAt(df, offs[e])) > 0
                        THEN np_mean(ValidMensesAt(df, offs[e]))
                        ELSE Num(5)

\* C4: every feature vector has exactly 13 components, each a finite real.
C4_AllFinite ==
    Returned =>
        \A e \in 1..Len(result.X) :
            /\ Len(result.X[e]) = 13
            /\ \A j \in 1..13 : IsFinite(result.X[e][j])

\* whether a cell holds a number (text that parses to one included)
IsNumericCell(c) == to_numeric(c).k # "nan"

ExpectedFirst(t, name, default) ==
    IF HasColumn(t, name) /\ IsNumericCell(Column(t, name)[1])
    THEN to_numeric(Column(t, name)[1])
    ELSE Num(default)

\* C6: the age and BMI features of every example are those of the entity's
\* first record: 30.0 (22.0) when the column is absent or the first record's
\* value is not numeric, whatever the later records hold, and the first
\* record's number otherwise.
C6_AgeBmiFromFirst ==
    Returned =>
        \A e \in 1..Len(result.X) :
            /\ result.X[e][12] = ExpectedFirst(df, COL_AGE, 30)
            /\ result.X[e][13] = ExpectedFirst(df, COL_BMI, 22)

\* the first Age is text, later records hold a number, and the default is used;
\* the BMI of the first record is a number and is carried
C6_Witness ==
    /\ Returned
    /\ Len(result.X) >= 2
    /\ HasColumn(df, COL_AGE) /\ HasColumn(df, COL_BMI)
    /\ Column(df, COL_AGE)[1] = Str("abc")
    /\ Column(df, COL_AGE)[2] = Num(52)
    /\ Column(df, COL_BMI)[1] = Num(25)
    /\ \A e \in 1..Len(result.X) :
          result.X[e][12] = Num(30) /\ result.X[e][13] = Num(25)

---------------------------------------------------------------------------
(* The claims about prepare_dataset *)

DatasetReturned == pc = "pd_returned"

\* how many cells of the column hold a number
NumericCount(cells) == Cardinality({r \in 1..Len(cells) : IsNumericCell(cells[r])})

\* the feature vectors of the calls j.. that are in keepSet, in call order
RECURSIVE ConcatKept(_, _, _)
ConcatKept(rs, j, keepSet) ==
    IF j > Len(rs) THEN <<>>
    ELSE (IF j \in keepSet THEN rs[j].X ELSE <<>>) \o ConcatKept(rs, j + 1, keepSet)

\* the entity of call j has W+1 = 7 numeric cycle lengths at least (it has
\* none where its records have no cycle-length column)
EnoughCycles(j) ==
    /\ HasColumn(handed[j], COL_CYCLE)
    /\ NumericCount(Column(handed[j], COL_CYCLE)) >= 7

\* C5: an entity with fewer than W+1 = 7 numeric cycle lengths (non-numeric
\* entries count for nothing) gets zero examples from the feature builder, and
\* prepare_dataset goes on without error: what it returns is what the other
\* entities contributed.
C5_TooFewSkipped ==
    /\ pc # "pd_raised"
    /\ \A j \in 1..Len(handed) :
          ~EnoughCycles(j) =>
              contrib[j].X = <<>> /\ contrib[j].y = <<>> /\ contrib[j].raised = ""
    /\ DatasetReturned => result.X = ConcatKept(contrib, 1, {j \in 1..Len(contrib) : EnoughCycles(j)})

\* the column names of the model that contain "id" or "client" in any case
NamesWithIdOrClient ==
    {"ClientID", "ID", "Client", "SiteClient", "PatientId", "client_no", "CLIENT", "Width"}

In(name) == \E j \in 1..Len(df.columns) : df.columns[j] = name

\* C8: the identifier column is the first of ClientID, ID, Client, Person,
\* Subject that the table has; failing that, the first column in table order
\* whose name contains "id" or "client" in any case; with no such column the
\* whole table is one entity and prepare_dataset returns what
\* prepare_features_per_person returns for it.
C8_IdColumnChoice ==
    pc # "pd_start" =>
        IF In("ClientID") THEN id_column = "ClientID"
        ELSE IF In("ID") THEN id_column = "ID"
        ELSE IF In("Client") THEN id_column = "Client"
        ELSE IF In("Person") THEN id_column = "Person"
        ELSE IF In("Subject") THEN id_column = "Subject"
        ELSE IF \E j \in 1..Len(df.columns) : df.columns[j] \in NamesWithIdOrClient
        THEN \E j \in 1..Len(df.columns) :
                /\ df.columns[j] \in NamesWithIdOrClient
                /\ \A i \in 1..(j - 1) : df.columns[i] \notin NamesWithIdOrClient
                /\ id_column = df.columns[j]
        ELSE /\ id_column = ""
             /\ pc # "pd_loop"
             /\ DatasetReturned =>
                   result = prepare_features_per_person(df, SEQUENCE_LENGTH)

\* the column found by its lower-cased name, after a column that does not match
C8_Witness ==
    /\ DatasetReturned
    /\ id_column = "PatientId"
    /\ df.columns[1] = "Group"
    /\ Len(persons) = 2
    /\ Len(result.X) >= 2

\* the rows of the table whose identifier is id, as a table
OnlyEntity(t, idc, id) ==
    LET j == ColIndex(t, idc)
        keepRows == {r \in 1..Len(t.rows) : t.rows[r][j] = id}
        nth(i) == CHOOSE r \in keepRows : Cardinality({q \in keepRows : q < r}) = i - 1
    IN  [columns |-> t.columns,
         rows |-> [i \in 1..Cardinality(keepRows) |-> t.rows[nth(i)]]]

FirstRowOf(t, idc, id) ==
    LET j == ColIndex(t, idc)
    IN  CHOOSE r \in 1..Len(t.rows) :
            t.rows[r][j] = id /\ \A q \in 1..(r - 1) : t.rows[q][j] # id

\* C9: what an entity contributes is what prepare_dataset returns for the
\* table of that entity's rows alone, whatever the other rows hold; an
\* out-of-range cycle length removes the examples whose window or target holds
\* it and no other; the output is the entities' contributions one after the
\* other, in the order of each entity's first row.
C9_EntityIsolation ==
    id_column # "" =>
        /\ \A j \in 1..Len(contrib) :
              ~IsNa(persons[j]) =>
                 /\ LET alone == prepare_dataset(OnlyEntity(df, id_column, persons[j]),
                                                 tiesKept)
                    IN  contrib[j].X = alone.X /\ contrib[j].y = alone.y
                 /\ LET cycles == ValidCycles(handed[j])
                        offs == KeptOffsets(cycles, 0)
                    IN  /\ Len(contrib[j].X) = Len(offs)
                        /\ \A e \in 1..Len(offs) :
                              /\ WindowOf(contrib[j].X[e]) =
                                    SubSeq(cycles, offs[e] + 1, offs[e] + 6)
                              /\ contrib[j].y[e] = cycles[offs[e] + 7]
        /\ DatasetReturned =>
              /\ Len(contrib) = Len(persons)
              /\ \A i, j \in 1..Len(persons) :
                    (i < j /\ ~IsNa(persons[i]) /\ ~IsNa(persons[j])) =>
                        FirstRowOf(df, id_column, persons[i])
                            < FirstRowOf(df, id_column, persons[j])
              /\ result.X = ConcatKept(contrib, 1, 1..Len(contrib))

\* two entities in alternating rows, both contributing, one of them with an
\* out-of-range cycle length that costs it some of its examples but not all
C9_Witness ==
    /\ DatasetReturned
    /\ Len(persons) = 2
    /\ Len(contrib[1].X) >= 1
    /\ Len(contrib[2].X) >= 1
    /\ df.rows[1][1] # df.rows[2][1]
    /\ \E j \in 1..2 :
          /\ \E r \in 1..Len(handed[j].rows) : ~InRange(to_numeric(Column(handed[j], COL_CYCLE)[r]))
          /\ Len(contrib[j].X) < Len(handed[j].rows) - 6

\* the numeric sequence numbers of the table never go down
Ascending(t) ==
    LET key == Column(t, COL_CYCLENUMBER)
    IN  \A i, j \in 1..Len(key) :
            (i < j /\ ~IsNa(key[i]) /\ ~IsNa(key[j])) => ~LtFin(key[j], key[i])

\* C10: every entity handed to the feature builder, the whole table taken as
\* one entity included, has its records in ascending CycleNumber order when
\* the table has that column.
C10_HandedInSequenceOrder ==
    \A j \in 1..Len(handed) :
        HasColumn(handed[j], COL_CYCLENUMBER) => Ascending(handed[j])

---------------------------------------------------------------------------
(* The claim about main *)

Terminated == pc \in {"exited", "crashed", "done"}

\* C7: the process ends with a non-zero status, having written no artifact,
\* if the input path is missing or feature extraction yields no example; in
\* every other case it writes the three artifacts and ends normally.
C7_ExitStatus ==
    Terminated =>
        IF ~pathExists \/ Len(result.X) = 0
        THEN exitStatus # 0 /\ artifacts = {}
        ELSE exitStatus = 0 /\ artifacts = ArtifactNames

=============================================================================
